---- MODULE Spec2Model ----
(***************************************************************************)
(* Model of the request configuration of glair-vision-go (package glair):  *)
(* the Config struct, its constructor NewConfig, the URL helper            *)
(* GetEndpointURL and the five With-setters.                               *)
(*                                                                         *)
(* Config objects live in a heap; a *Config is an address into it and the  *)
(* nil pointer is address 0.  Go strings are TLA+ strings, string          *)
(* concatenation is \o.  HTTPClient and Logger values are opaque           *)
(* references, written as strings; the nil interface value is NilIface.    *)
(***************************************************************************)
EXTENDS Naturals, Sequences, FiniteSets, TLC

\* ---------------------------------------------------------------- bounds
\* Number of NewConfig calls a run may make.
MaxConfigs == 2
\* Number of calls (constructor, setters, GetEndpointURL) a run may make.
MaxCalls == 5
\* Number of goroutines that call GetEndpointURL concurrently (SpecRead).
NumReaders == 2

\* ------------------------------------------------------- package constants
defaultUrl == "https://api.vision.glair.ai"
defaultVersion == "v1"

\* The values the package-level variables defaultClient and defaultLogger
\* are initialised with.
httpDefaultClient == "http.DefaultClient"
leveledLoggerNone == "&LeveledLogger{Level: LevelNone}"

\* The nil *Config and the nil interface value.
nil == 0
NilIface == "nil"

\* ------------------------------------------------------- argument domains
Credentials == {<<"u", "p", "k">>, <<"", "", "">>}
Urls == {"http://localhost:8080", "h/"}
Versions == {"v2", ""}
Services == {"ocr", "face", ""}
Endpoints == {"ktp", "liveness", "a/b/"}
Clients == {NilIface, "customClient"}
Loggers == {NilIface, "customLogger"}

VARIABLES
    heap,           \* the allocated Config objects, by address 1..Len(heap)
    defaultClient,  \* package-level var defaultClient
    defaultLogger,  \* package-level var defaultLogger
    call,           \* the last completed call: operation, receiver, arguments, result
    hist,           \* per Config: the argument of the most recent call of each setter
    ncalls,         \* number of calls made so far
    pc,             \* SpecRead: per reader goroutine, its position in GetEndpointURL
    rargs,          \* SpecRead: per reader, receiver and arguments of its call
    parts,          \* SpecRead: per reader, the local slice `parts`
    result          \* SpecRead: per reader, the value its call returned

vars == <<heap, defaultClient, defaultLogger, call, hist, ncalls, pc, rargs, parts, result>>
readerVars == <<pc, rargs, parts, result>>

Readers == 1..NumReaders

\* --------------------------------------------------------- pure functions

\* strings.Join(elems, sep): the elements in order, sep between neighbours.
RECURSIVE Join(_, _)
Join(elems, sep) ==
    IF Len(elems) = 0 THEN ""
    ELSE IF Len(elems) = 1 THEN elems[1]
    ELSE elems[1] \o sep \o Join(Tail(elems), sep)

\* The result of a method: the heap after it, the value returned (a *Config
\* in ret or a string in url) and whether it panicked.
Outcome(h, ret, url, panicked) ==
    [heap |-> h, ret |-> ret, url |-> url, panicked |-> panicked]

\* NewConfig with Password and ApiKey exchanged in the struct literal.
NewConfigSwapped(h, username, password, apiKey) ==
    Outcome(Append(h, [Username   |-> username,
                       Password   |-> apiKey,
                       ApiKey     |-> password,
                       BaseUrl    |-> defaultUrl,
                       ApiVersion |-> defaultVersion,
                       Client     |-> defaultClient,
                       Logger     |-> defaultLogger]),
            Len(h) + 1, "", FALSE)

\* NewConfig with the Logger field left out of the struct literal: the field
\* holds the zero value of an interface, nil.
NewConfigNoLogger(h, username, password, apiKey) ==
    Outcome(Append(h, [Username   |-> username,
                       Password   |-> password,
                       ApiKey     |-> apiKey,
                       BaseUrl    |-> defaultUrl,
                       ApiVersion |-> defaultVersion,
                       Client     |-> defaultClient,
                       Logger     |-> NilIface]),
            Len(h) + 1, "", FALSE)

\* NewConfig: allocates a Config with the credentials given and the defaults.
NewConfig(h, username, password, apiKey) ==
    Outcome(Append(h, [Username   |-> username,
                       Password   |-> password,
                       ApiKey     |-> apiKey,
                       BaseUrl    |-> defaultUrl,
                       ApiVersion |-> defaultVersion,
                       Client     |-> defaultClient,
                       Logger     |-> defaultLogger]),
            Len(h) + 1, "", FALSE)

\* GetEndpointURL that drops empty segments before joining, as path.Join does.
GetEndpointURLSkipEmpty(h, c, service, endpoint) ==
    IF c = nil THEN Outcome(h, nil, "", TRUE)
    ELSE Outcome(h, nil,
                 Join(SelectSeq(<<h[c].BaseUrl, service, h[c].ApiVersion, endpoint>>,
                                LAMBDA p : p # ""), "/"),
                 FALSE)

\* GetEndpointURL: reading c.BaseUrl through a nil c is a nil pointer
\* dereference, a run-time panic.
GetEndpointURL(h, c, service, endpoint) ==
    IF c = nil THEN Outcome(h, nil, "", TRUE)
    ELSE Outcome(h, nil, Join(<<h[c].BaseUrl, service, h[c].ApiVersion, endpoint>>, "/"), FALSE)

WithCredentials(h, c, username, password, apiKey) ==
    IF c = nil THEN Outcome(h, nil, "", FALSE)
    ELSE Outcome([h EXCEPT ![c].Username = username,
                           ![c].Password = password,
                           ![c].ApiKey = apiKey], c, "", FALSE)

WithClient(h, c, client) ==
    IF c = nil THEN Outcome(h, nil, "", FALSE)
    ELSE Outcome([h EXCEPT ![c].Client = client], c, "", FALSE)

\* WithBaseURL that also puts the version back to its default.
WithBaseURLResetVersion(h, c, url) ==
    IF c = nil THEN Outcome(h, nil, "", FALSE)
    ELSE Outcome([h EXCEPT ![c].BaseUrl = url, ![c].ApiVersion = defaultVersion], c, "", FALSE)

\* WithBaseURL that appends to the base URL instead of replacing it.
WithBaseURLAppend(h, c, url) ==
    IF c = nil THEN Outcome(h, nil, "", FALSE)
    ELSE Outcome([h EXCEPT ![c].BaseUrl = @ \o url], c, "", FALSE)

WithBaseURL(h, c, url) ==
    IF c = nil THEN Outcome(h, nil, "", FALSE)
    ELSE Outcome([h EXCEPT ![c].BaseUrl = url], c, "", FALSE)

\* WithVersion without the nil check: the assignment dereferences nil.
WithVersionNoNilCheck(h, c, version) ==
    IF c = nil THEN Outcome(h, nil, "", TRUE)
    ELSE Outcome([h EXCEPT ![c].ApiVersion = version], c, "", FALSE)

\* WithVersion that assigns to BaseUrl, as a copy of WithBaseURL left unedited.
WithVersionIntoBaseUrl(h, c, version) ==
    IF c = nil THEN Outcome(h, nil, "", FALSE)
    ELSE Outcome([h EXCEPT ![c].BaseUrl = version], c, "", FALSE)

WithVersion(h, c, version) ==
    IF c = nil THEN Outcome(h, nil, "", FALSE)
    ELSE Outcome([h EXCEPT ![c].ApiVersion = version], c, "", FALSE)

\* WithLogger that writes through the logger every Config shares, so that
\* every Config sees the new logger.
WithLoggerShared(h, c, logger) ==
    IF c = nil THEN Outcome(h, nil, "", FALSE)
    ELSE Outcome([a \in 1..Len(h) |-> [h[a] EXCEPT !.Logger = logger]], c, "", FALSE)

WithLogger(h, c, logger) ==
    IF c = nil THEN Outcome(h, nil, "", FALSE)
    ELSE Outcome([h EXCEPT ![c].Logger = logger], c, "", FALSE)

\* ------------------------------------------------------------- the program

\* A *Config the caller can hold: nil or the address of an allocated Config.
Refs == 0..Len(heap)

Setters == {"WithCredentials", "WithClient", "WithBaseURL", "WithVersion", "WithLogger"}

\* No setter has been called yet on a Config.
NoHist == [base |-> <<>>, ver |-> <<>>, client |-> <<>>, logger |-> <<>>]

\* A panic that nothing recovers ends the program.
Running == ~call.panicked /\ ncalls < MaxCalls

\* The record of a call that has returned (or panicked) with outcome r.
Called(op, recv, args, r) ==
    [op |-> op, recv |-> recv, args |-> args, ret |-> r.ret, url |-> r.url,
     panicked |-> r.panicked,
     repeat |-> (call.op = op /\ call.recv = recv /\ call.args = args)]

Init ==
    /\ heap = <<>>
    /\ defaultClient = httpDefaultClient
    /\ defaultLogger = leveledLoggerNone
    /\ call = [op |-> "none", recv |-> nil, args |-> <<>>, ret |-> nil, url |-> "",
               panicked |-> FALSE, repeat |-> FALSE]
    /\ hist = <<>>
    /\ ncalls = 0
    /\ pc = [r \in Readers |-> "idle"]
    /\ rargs = [r \in Readers |-> [c |-> nil, service |-> "", endpoint |-> ""]]
    /\ parts = [r \in Readers |-> <<>>]
    /\ result = [r \in Readers |-> ""]

\* The effect of a call with outcome r on the program's state.
Return(op, recv, args, r) ==
    /\ heap' = r.heap
    /\ call' = Called(op, recv, args, r)
    /\ ncalls' = ncalls + 1
    /\ UNCHANGED <<defaultClient, defaultLogger, readerVars>>

CallNewConfig ==
    /\ Running
    /\ Len(heap) < MaxConfigs
    /\ \E cred \in Credentials :
          /\ Return("NewConfig", nil, cred, NewConfig(heap, cred[1], cred[2], cred[3]))
          /\ hist' = Append(hist, NoHist)

CallGetEndpointURL ==
    /\ Running
    /\ \E c \in Refs, service \in Services, endpoint \in Endpoints :
          Return("GetEndpointURL", c, <<service, endpoint>>,
                 GetEndpointURL(heap, c, service, endpoint))
    /\ UNCHANGED hist

CallWithCredentials ==
    /\ Running
    /\ \E c \in Refs, cred \in Credentials :
          Return("WithCredentials", c, cred,
                 WithCredentials(heap, c, cred[1], cred[2], cred[3]))
    /\ UNCHANGED hist

CallWithClient ==
    /\ Running
    /\ \E c \in Refs, client \in Clients :
          /\ Return("WithClient", c, <<client>>, WithClient(heap, c, client))
          /\ hist' = IF c = nil THEN hist ELSE [hist EXCEPT ![c].client = <<client>>]

CallWithBaseURL ==
    /\ Running
    /\ \E c \in Refs, url \in Urls :
          /\ Return("WithBaseURL", c, <<url>>, WithBaseURL(heap, c, url))
          /\ hist' = IF c = nil THEN hist ELSE [hist EXCEPT ![c].base = <<url>>]

CallWithVersion ==
    /\ Running
    /\ \E c \in Refs, version \in Versions :
          /\ Return("WithVersion", c, <<version>>, WithVersion(heap, c, version))
          /\ hist' = IF c = nil THEN hist ELSE [hist EXCEPT ![c].ver = <<version>>]

CallWithLogger ==
    /\ Running
    /\ \E c \in Refs, logger \in Loggers :
          /\ Return("WithLogger", c, <<logger>>, WithLogger(heap, c, logger))
          /\ hist' = IF c = nil THEN hist ELSE [hist EXCEPT ![c].logger = <<logger>>]

Next ==
    \/ CallNewConfig
    \/ CallGetEndpointURL
    \/ CallWithCredentials
    \/ CallWithClient
    \/ CallWithBaseURL
    \/ CallWithVersion
    \/ CallWithLogger

Spec == Init /\ [][Next]_vars

\* ------------------------------------------- concurrent GetEndpointURL calls
\* Goroutines that share one constructed Config and call GetEndpointURL on
\* it; no setter runs.  Each call is the steps of the method: the two field
\* reads that fill the local slice `parts`, then strings.Join.

\* A Config as set up before it is shared: constructed, then optionally
\* given a base URL and a version.
Setups ==
    LET h0 == NewConfig(<<>>, "u", "p", "k").heap
    IN  {[heap |-> h0, hist |-> <<NoHist>>, ncalls |-> 1]}
        \cup {[heap   |-> WithVersion(WithBaseURL(h0, 1, u).heap, 1, v).heap,
               hist   |-> <<[NoHist EXCEPT !.base = <<u>>, !.ver = <<v>>]>>,
               ncalls |-> 3] : u \in Urls, v \in Versions}

InitRead ==
    /\ defaultClient = httpDefaultClient
    /\ defaultLogger = leveledLoggerNone
    /\ \E s \in Setups :
          /\ heap = s.heap
          /\ hist = s.hist
          /\ ncalls = s.ncalls
    /\ call = [op |-> "none", recv |-> nil, args |-> <<>>, ret |-> nil, url |-> "",
               panicked |-> FALSE, repeat |-> FALSE]
    /\ pc = [r \in Readers |-> "idle"]
    /\ rargs = [r \in Readers |-> [c |-> nil, service |-> "", endpoint |-> ""]]
    /\ parts = [r \in Readers |-> <<>>]
    /\ result = [r \in Readers |-> ""]

\* Goroutine r enters GetEndpointURL on the shared Config.
ReaderCall(r) ==
    /\ pc[r] = "idle"
    /\ \E c \in 1..Len(heap), service \in Services, endpoint \in Endpoints :
          rargs' = [rargs EXCEPT ![r] = [c |-> c, service |-> service, endpoint |-> endpoint]]
    /\ pc' = [pc EXCEPT ![r] = "readBaseUrl"]
    /\ parts' = [parts EXCEPT ![r] = <<>>]
    /\ UNCHANGED <<heap, defaultClient, defaultLogger, call, hist, ncalls, result>>

\* Line 78, first element: c.BaseUrl is read, service follows it.
ReaderReadBaseUrl(r) ==
    /\ pc[r] = "readBaseUrl"
    /\ parts' = [parts EXCEPT ![r] = <<heap[rargs[r].c].BaseUrl, rargs[r].service>>]
    /\ pc' = [pc EXCEPT ![r] = "readApiVersion"]
    /\ UNCHANGED <<heap, defaultClient, defaultLogger, call, hist, ncalls, rargs, result>>

\* The read of c.ApiVersion that stores the default version in an empty field
\* before using it.
ReaderReadApiVersionDefaulting(r) ==
    /\ pc[r] = "readApiVersion"
    /\ LET c == rargs[r].c
           v == IF heap[c].ApiVersion = "" THEN defaultVersion ELSE heap[c].ApiVersion
       IN  /\ heap' = [heap EXCEPT ![c].ApiVersion = v]
           /\ parts' = [parts EXCEPT ![r] = parts[r] \o <<v, rargs[r].endpoint>>]
    /\ pc' = [pc EXCEPT ![r] = "join"]
    /\ UNCHANGED <<defaultClient, defaultLogger, call, hist, ncalls, rargs, result>>

\* Line 78, third element: c.ApiVersion is read, endpoint follows it.
ReaderReadApiVersion(r) ==
    /\ pc[r] = "readApiVersion"
    /\ parts' = [parts EXCEPT ![r] = parts[r] \o <<heap[rargs[r].c].ApiVersion, rargs[r].endpoint>>]
    /\ pc' = [pc EXCEPT ![r] = "join"]
    /\ UNCHANGED <<heap, defaultClient, defaultLogger, call, hist, ncalls, rargs, result>>

\* Line 79: the call returns strings.Join(parts, "/").
ReaderJoin(r) ==
    /\ pc[r] = "join"
    /\ result' = [result EXCEPT ![r] = Join(parts[r], "/")]
    /\ pc' = [pc EXCEPT ![r] = "done"]
    /\ UNCHANGED <<heap, defaultClient, defaultLogger, call, hist, ncalls, rargs, parts>>

\* The caller has used the value and the call's frame is gone; the goroutine
\* may call again.
ReaderReturn(r) ==
    /\ pc[r] = "done"
    /\ pc' = [pc EXCEPT ![r] = "idle"]
    /\ parts' = [parts EXCEPT ![r] = <<>>]
    /\ rargs' = [rargs EXCEPT ![r] = [c |-> nil, service |-> "", endpoint |-> ""]]
    /\ result' = [result EXCEPT ![r] = ""]
    /\ UNCHANGED <<heap, defaultClient, defaultLogger, call, hist, ncalls>>

NextRead ==
    \E r \in Readers :
        \/ ReaderCall(r)
        \/ ReaderReadBaseUrl(r)
        \/ ReaderReadApiVersion(r)
        \/ ReaderJoin(r)
        \/ ReaderReturn(r)

SpecRead == InitRead /\ [][NextRead]_vars

\* ------------------------------------------------------------- properties

\* A step in which one call is made; call' is then the record of that call.
Step == ncalls' = ncalls + 1

\* The addresses of the allocated Configs.
Allocated == 1..Len(heap)

Fields == {"Username", "Password", "ApiKey", "BaseUrl", "ApiVersion", "Client", "Logger"}

\* The fields a setter assigns, in the order of its arguments.
FieldsOf(op) ==
    CASE op = "WithCredentials" -> <<"Username", "Password", "ApiKey">>
      [] op = "WithClient"      -> <<"Client">>
      [] op = "WithBaseURL"     -> <<"BaseUrl">>
      [] op = "WithVersion"     -> <<"ApiVersion">>
      [] op = "WithLogger"      -> <<"Logger">>

\* The fields in which two Config values differ.
Differing(old, new) == {f \in Fields : old[f] # new[f]}

\* C1: NewConfig(username, password, apiKey) returns a non-nil Config whose
\* Username, Password and ApiKey are the three arguments in that order, whose
\* BaseUrl is "https://api.vision.glair.ai" and whose ApiVersion is "v1".
C1_NewConfig ==
    call.op = "NewConfig" =>
        /\ ~call.panicked
        /\ call.ret # nil
        /\ call.ret \in Allocated
        /\ heap[call.ret].Username = call.args[1]
        /\ heap[call.ret].Password = call.args[2]
        /\ heap[call.ret].ApiKey = call.args[3]
        /\ heap[call.ret].BaseUrl = "https://api.vision.glair.ai"
        /\ heap[call.ret].ApiVersion = "v1"

\* NewConfig("u", "p", "k") has returned.
C1_Witness ==
    /\ call.op = "NewConfig"
    /\ call.args = <<"u", "p", "k">>
    /\ heap[call.ret].Password = "p"

\* C2: on every non-nil Config, GetEndpointURL(service, endpoint) is exactly
\* BaseUrl + "/" + service + "/" + ApiVersion + "/" + endpoint: four segments
\* in that order, three separators, every segment verbatim (empty segments
\* and segments that hold a "/" included).
C2_EndpointURL ==
    /\ \A c \in Allocated, service \in Services, endpoint \in Endpoints :
          LET r == GetEndpointURL(heap, c, service, endpoint)
          IN  /\ ~r.panicked
              /\ r.url = heap[c].BaseUrl \o "/" \o service \o "/"
                           \o heap[c].ApiVersion \o "/" \o endpoint
    /\ (call.op = "GetEndpointURL" /\ call.recv # nil) =>
          /\ call.url = heap[call.recv].BaseUrl \o "/" \o call.args[1] \o "/"
                          \o heap[call.recv].ApiVersion \o "/" \o call.args[2]
          /\ Len(call.url) = Len(heap[call.recv].BaseUrl) + Len(call.args[1])
                               + Len(heap[call.recv].ApiVersion) + Len(call.args[2]) + 3

\* GetEndpointURL("", "a/b/") has returned on a Config whose base URL ends in
\* "/" and whose version is empty: every separator is kept.
C2_Witness ==
    /\ call.op = "GetEndpointURL"
    /\ call.recv # nil
    /\ call.args = <<"", "a/b/">>
    /\ heap[call.recv].BaseUrl = "h/"
    /\ heap[call.recv].ApiVersion = ""
    /\ call.url = "h////a/b/"

\* C3: a setter called on a nil Config returns nil, does not panic and
\* changes neither an existing Config nor the package-level defaults.
C3_NilSafe ==
    [][(Step /\ call'.op \in Setters /\ call'.recv = nil) =>
          /\ call'.ret = nil
          /\ ~call'.panicked
          /\ heap' = heap
          /\ defaultClient' = defaultClient
          /\ defaultLogger' = defaultLogger]_vars

\* WithVersion has returned from a call on nil while a Config exists.
C3_Witness ==
    /\ call.op = "WithVersion"
    /\ call.recv = nil
    /\ call.ret = nil
    /\ Len(heap) > 0

\* C4, as claimed: a setter called on a non-nil Config returns its receiver
\* and changes one field of it, no other.
C4_OneField ==
    [][(Step /\ call'.op \in Setters /\ call'.recv # nil) =>
          /\ call'.ret = call'.recv
          /\ Cardinality(Differing(heap[call'.recv], heap'[call'.recv])) <= 1]_vars

\* C4, amended: a setter called on a non-nil Config returns its receiver,
\* assigns its arguments to its own fields (WithCredentials to the three
\* fields Username, Password and ApiKey, each other setter to one field) and
\* leaves every other field of the receiver unchanged.
C4_SetterFrame ==
    [][(Step /\ call'.op \in Setters /\ call'.recv # nil) =>
          LET fs  == FieldsOf(call'.op)
              old == heap[call'.recv]
              new == heap'[call'.recv]
          IN  /\ call'.ret = call'.recv
              /\ ~call'.panicked
              /\ Len(heap') = Len(heap)
              /\ Len(fs) = Len(call'.args)
              /\ \A i \in 1..Len(fs) : new[fs[i]] = call'.args[i]
              /\ Differing(old, new) \subseteq {fs[i] : i \in 1..Len(fs)}]_vars

\* WithCredentials("u", "p", "k") has returned its receiver, whose base URL
\* and client had been set before and are kept.
C4_Witness ==
    /\ call.op = "WithCredentials"
    /\ call.recv # nil
    /\ call.ret = call.recv
    /\ call.args = <<"u", "p", "k">>
    /\ heap[call.recv].Username = "u"
    /\ heap[call.recv].BaseUrl = "h/"
    /\ heap[call.recv].Client = "customClient"

\* Calling a setter a second time on what the first call left changes nothing.
IdempotentHere ==
    \A c \in Refs :
        /\ \A cred \in Credentials :
              LET once == WithCredentials(heap, c, cred[1], cred[2], cred[3])
              IN  WithCredentials(once.heap, c, cred[1], cred[2], cred[3]) = once
        /\ \A client \in Clients :
              LET once == WithClient(heap, c, client)
              IN  WithClient(once.heap, c, client) = once
        /\ \A url \in Urls :
              LET once == WithBaseURL(heap, c, url)
              IN  WithBaseURL(once.heap, c, url) = once
        /\ \A version \in Versions :
              LET once == WithVersion(heap, c, version)
              IN  WithVersion(once.heap, c, version) = once
        /\ \A logger \in Loggers :
              LET once == WithLogger(heap, c, logger)
              IN  WithLogger(once.heap, c, logger) = once

\* C5: a setter called twice in a row with the same arguments leaves the
\* Config (all seven fields) and the reference returned as one call does.
C5_Idempotent ==
    /\ []IdempotentHere
    /\ [][(Step /\ call'.op \in Setters /\ call'.repeat) =>
             /\ heap' = heap
             /\ call'.ret = call.ret
             /\ call'.panicked = call.panicked]_vars

\* WithBaseURL has returned from the second of two calls in a row with the
\* same argument on the same Config.
C5_Witness ==
    /\ call.op = "WithBaseURL"
    /\ call.repeat
    /\ call.recv # nil
    /\ heap[call.recv].BaseUrl = call.args[1]

\* The base URL and the version a Config should hold by the calls made on it:
\* the argument of the most recent WithBaseURL (WithVersion) call, the
\* default if there was none.
LatestBaseUrl(c) ==
    IF hist[c].base = <<>> THEN "https://api.vision.glair.ai" ELSE hist[c].base[1]
LatestVersion(c) ==
    IF hist[c].ver = <<>> THEN "v1" ELSE hist[c].ver[1]

\* C6: after any sequence of setter calls on a Config made by NewConfig,
\* GetEndpointURL is built from the default base URL and version where
\* WithBaseURL / WithVersion were never called and from the argument of the
\* most recent call otherwise; WithCredentials, WithClient and WithLogger
\* never change the URL returned.
C6_UrlFromLatest ==
    /\ [](\A c \in Allocated, service \in Services, endpoint \in Endpoints :
             GetEndpointURL(heap, c, service, endpoint).url =
                 LatestBaseUrl(c) \o "/" \o service \o "/" \o LatestVersion(c) \o "/" \o endpoint)
    /\ []((call.op = "GetEndpointURL" /\ call.recv # nil) =>
             call.url = LatestBaseUrl(call.recv) \o "/" \o call.args[1] \o "/"
                          \o LatestVersion(call.recv) \o "/" \o call.args[2])
    /\ [][(Step /\ call'.op \in {"WithCredentials", "WithClient", "WithLogger"}) =>
             \A c \in Allocated, service \in Services, endpoint \in Endpoints :
                 GetEndpointURL(heap', c, service, endpoint).url =
                     GetEndpointURL(heap, c, service, endpoint).url]_vars

\* GetEndpointURL("face", "liveness") has returned after
\* WithBaseURL("http://localhost:8080") and WithVersion("v2").
C6_Witness ==
    /\ call.op = "GetEndpointURL"
    /\ call.recv # nil
    /\ hist[call.recv].base = <<"http://localhost:8080">>
    /\ hist[call.recv].ver = <<"v2">>
    /\ call.args = <<"face", "liveness">>
    /\ call.url = "http://localhost:8080/face/v2/liveness"

\* C7, as claimed: in every state after construction, whatever setters were
\* called with whatever arguments, no field of a Config is nil.
C7_NoFieldNil ==
    \A c \in Allocated :
        /\ heap[c].BaseUrl \in STRING
        /\ heap[c].ApiVersion \in STRING
        /\ heap[c].Client # NilIface
        /\ heap[c].Logger # NilIface

\* C7, amended: BaseUrl and ApiVersion always hold a string, and Client
\* (Logger) is nil exactly when the most recent WithClient (WithLogger) call
\* on the Config passed nil: no field is nil after construction and after any
\* sequence of setter calls whose client and logger arguments are non-nil.
C7_NilOnlyIfSet ==
    \A c \in Allocated :
        /\ heap[c].BaseUrl \in STRING
        /\ heap[c].ApiVersion \in STRING
        /\ heap[c].Client = NilIface <=> hist[c].client = <<NilIface>>
        /\ heap[c].Logger = NilIface <=> hist[c].logger = <<NilIface>>

\* A second Config has just been constructed, and the first has been given a
\* client and a logger that are not nil: no field of either is nil.
C7_Witness ==
    /\ call.op = "NewConfig"
    /\ Len(heap) = 2
    /\ hist[1].client = <<"customClient">>
    /\ hist[1].logger = <<"customLogger">>
    /\ \A c \in Allocated : heap[c].Client # NilIface /\ heap[c].Logger # NilIface

\* C8: no operation panics, for any argument and any receiver that a chain
\* of the operations can produce, the nil returned by a setter called on nil
\* included.
C8_NoPanic ==
    ~call.panicked

\* What GetEndpointURL returns when it runs alone.
Alone(r) ==
    GetEndpointURL(heap, rargs[r].c, rargs[r].service, rargs[r].endpoint).url

\* C9: GetEndpointURL changes no field of the Config (nor a package-level
\* default), and calls interleaved in any order on one constructed Config
\* each return what the call returns when it runs alone.
C9_ReadersAgree ==
    /\ [](\A r \in Readers : pc[r] = "done" => result[r] = Alone(r))
    /\ [][heap' = heap /\ defaultClient' = defaultClient /\ defaultLogger' = defaultLogger]_vars

\* Two calls with different endpoints have both returned and neither result
\* has been consumed yet, on a Config with an empty version.
C9_Witness ==
    /\ pc[1] = "done"
    /\ pc[2] = "done"
    /\ rargs[1].endpoint = "ktp"
    /\ rargs[2].endpoint = "a/b/"
    /\ heap[1].ApiVersion = ""
    /\ result[1] # result[2]

\* C10: a setter call on one Config changes no field of another Config and
\* no package-level default, so a Config made by NewConfig after setter calls
\* on other Configs still gets the original default base URL, version,
\* Client and Logger.
C10_Isolation ==
    /\ [](defaultClient = "http.DefaultClient" /\ defaultLogger = "&LeveledLogger{Level: LevelNone}")
    /\ [](call.op = "NewConfig" =>
             /\ heap[call.ret].BaseUrl = "https://api.vision.glair.ai"
             /\ heap[call.ret].ApiVersion = "v1"
             /\ heap[call.ret].Client = "http.DefaultClient"
             /\ heap[call.ret].Logger = "&LeveledLogger{Level: LevelNone}")
    /\ [][(Step /\ call'.op \in Setters) =>
             /\ Len(heap') = Len(heap)
             /\ \A a \in Allocated : a # call'.recv => heap'[a] = heap[a]]_vars

\* A second Config has just been constructed after the first was given
\* another base URL, client and logger.
C10_Witness ==
    /\ call.op = "NewConfig"
    /\ call.ret = 2
    /\ heap[1].BaseUrl = "h/"
    /\ heap[1].Client = "customClient"
    /\ heap[1].Logger = NilIface
    /\ heap[2].Client = "http.DefaultClient"

====
